---- MODULE Spec2Model ----
\* qvalue.py: Storey-Tibshirani q-values (qvalue) and the estimate of the
\* proportion of true null hypotheses (estimate_pi0).
\*
\* Number representation.  The program computes in float64.  Here
\*   - p-values and lambdas are integers counted in steps of 0.01
\*     (PScale steps make 1.0), so lam[idx] = idx and "pv > lam" is exact;
\*   - pi0 and the pi0 candidates are fixed-point numbers with Scale units per
\*     1.0, a division truncating where float64 rounds;
\*   - a q-value pi0 * m * pv / rank has Scale * PScale units per 1.0;
\*   - np.std is compared through its square (the variance with ddof=1): the
\*     square root is increasing, so the comparison and the argmin are the same.
\* Python's None is the empty tuple, a present value v the 1-tuple <<v>>.
EXTENDS Integers, Sequences, FiniteSets, TLC

VARIABLES
  pv_in, m_in, pi0_in,  \* the caller's arguments, never changed
  pc, err,              \* position in qvalue; the exception raised, if any
  pv, m, pi0,           \* qvalue's locals pv, m, pi0
  warned,               \* the warning of line 88 was written to stderr
  est,                  \* estimate_pi0's locals, once its lambda grid has run
  p_ordered, qv         \* qvalue's locals p_ordered, qv

vars == <<pv_in, m_in, pi0_in, pc, err, pv, m, pi0, warned, est, p_ordered, qv>>

----------------------------------------------------------------------------
\* Program constants

PScale == 100     \* 1 / 0.01, the step of the lambda grid
LamLen == 95      \* len(np.arange(0, 0.95, 0.01))
MinPvals == 100   \* "elif pv_len < 100"
SdPercent == 90   \* int(lam_len * 0.90)
SdTail == 5       \* pi0s_len - 5

\* Bounds of the model

Scale == 200      \* fixed-point units per 1.0 of pi0 and of the candidates
MaxHead == 3      \* length of a short input
MaxExtra == 1     \* number of p-values in front of the block of a long input

None == <<>>
Some(v) == <<v>>

Min(a, b) == IF a < b THEN a ELSE b

\* The inputs: the short ones are 1 to MaxHead freely chosen p-values, the long
\* ones up to MaxExtra freely chosen p-values followed by a block of MinPvals
\* p-values.  -1 and 101 are out of [0,1].
HeadVals == {0 - 1, 0, 50, 100, 101}
BlockVals == {0, 5, 6, 50, 92, 100}
ConstBlock(v) == [i \in 1..MinPvals |-> v]
RampBlock == [i \in 1..MinPvals |-> i - 1]
MixBlock == [i \in 1..MinPvals |-> IF i <= 20 THEN 0 ELSE ((i - 21) * 5) \div 4]
Blocks == {RampBlock, MixBlock} \cup {ConstBlock(v) : v \in BlockVals}
Heads(max) == UNION {[1..n -> HeadVals] : n \in 0..max}
ShortInputs == Heads(MaxHead) \ {<<>>}
LongInputs == {h \o b : h \in Heads(MaxExtra), b \in Blocks}
MVals == {None, Some(99), Some(200)}
Pi0Vals == {None, Some(Scale \div 2), Some(Scale), Some((3 * Scale) \div 2)}

----------------------------------------------------------------------------
\* qvalue, lines 41-51

SeqMin(s) == CHOOSE x \in {s[i] : i \in 1..Len(s)} : \A i \in 1..Len(s) : x <= s[i]
SeqMax(s) == CHOOSE x \in {s[i] : i \in 1..Len(s)} : \A i \in 1..Len(s) : x >= s[i]

\* line 42
ValidInputNoMax(p) == SeqMin(p) >= 0
ValidInput(p) == SeqMin(p) >= 0 /\ SeqMax(p) <= PScale

\* lines 47-51
TestCount(p, m_arg) == IF m_arg = None THEN Len(p) ELSE m_arg[1]

----------------------------------------------------------------------------
\* estimate_pi0, lines 82-163

\* the sum of s[lo..hi], and of the squared deviations from mu
RECURSIVE SeqSum(_, _, _)
SeqSum(s, lo, hi) ==
  IF lo > hi THEN 0
  ELSE IF lo = hi THEN s[lo]
  ELSE LET mid == (lo + hi) \div 2 IN SeqSum(s, lo, mid) + SeqSum(s, mid + 1, hi)

RECURSIVE SqDevSum(_, _, _, _)
SqDevSum(s, mu, lo, hi) ==
  IF lo > hi THEN 0
  ELSE IF lo = hi THEN (s[lo] - mu) * (s[lo] - mu)
  ELSE LET mid == (lo + hi) \div 2
       IN SqDevSum(s, mu, lo, mid) + SqDevSum(s, mu, mid + 1, hi)

\* pi0s[idx:], idx a 0-based Python index
Suffix(s, idx) == SubSeq(s, idx + 1, Len(s))

\* np.mean
Mean(s) == SeqSum(s, 1, Len(s)) \div Len(s)

\* np.std(s, ddof=1) squared
Variance(s) == SqDevSum(s, Mean(s), 1, Len(s)) \div (Len(s) - 1)

\* counts[idx] = (pv > lam[idx]).sum(), idx = 0 .. lam_len - 1
Count(p, idx) == Cardinality({i \in 1..Len(p) : p[i] > idx})
Counts(p) == [j \in 1..LamLen |-> Count(p, j - 1)]

\* the loop of lines 97-100 leaves at the first zero count
Pi0sLen(cnt) ==
  IF \A j \in 1..LamLen : cnt[j] # 0 THEN LamLen
  ELSE (CHOOSE j \in 1..LamLen : cnt[j] = 0 /\ \A i \in 1..(j - 1) : cnt[i] # 0) - 1

\* counts[idx] / (m * (1 - lam[idx]))
Candidate(count, mm, idx) == (count * PScale * Scale) \div (mm * (PScale - idx))

Pi0s(cnt, mm) ==
  SubSeq([j \in 1..LamLen |-> Candidate(cnt[j], mm, j - 1)], 1, Pi0sLen(cnt))

\* sd_range = range(SdStop(pi0s_len)): the indices 0 .. SdStop - 1
SdStopWide(pi0s_len) == Min((LamLen * SdPercent) \div 100, pi0s_len - 1)
SdStop(pi0s_len) == Min((LamLen * SdPercent) \div 100, pi0s_len - SdTail)

\* lines 132-134, one pass of the loop body: best is min_idx, and min_stdev is
\* stdev[min_idx] (np.inf while min_idx is None)
\* (the dicts stdev and means are sequences here: sd[idx + 1] is stdev[idx])
MinStep(sd, idx, best) ==
  IF best = None \/ sd[idx + 1] < sd[best[1] + 1] THEN Some(idx) ELSE best

\* the loop of lines 129-134 over idx = lo .. hi - 1, in this order: the passes
\* of the first half of the range, then those of the second half.  (The test
\* of first makes TLC evaluate the first half before it enters the second.)
RECURSIVE MinScan(_, _, _, _)
MinScan(sd, lo, hi, best) ==
  IF lo >= hi THEN best
  ELSE IF hi = lo + 1 THEN MinStep(sd, lo, best)
  ELSE LET mid == (lo + hi) \div 2
           first == MinScan(sd, lo, mid, best)
       IN IF first = None THEN MinScan(sd, mid, hi, None)
          ELSE MinScan(sd, mid, hi, first)

\* lines 160-161
NoClamp(x) == x
Clamp(x) == IF x > Scale THEN Scale ELSE x

NotRun == [ran |-> FALSE]

\* lines 91-163, the estimate from the lambda grid
GridEstimate(p, mm) ==
  LET cnt == SubSeq(Counts(p), 1, LamLen)
      cands == Pi0s(cnt, mm)
      stop == SdStop(Len(cands))
      mns == SubSeq([j \in 1..stop |-> Mean(Suffix(cands, j - 1))], 1, stop)
      sds == SubSeq([j \in 1..stop |-> Variance(Suffix(cands, j - 1))], 1, stop)
      best == MinScan(sds, 0, stop, None)
      locals == [ran |-> TRUE, counts |-> cnt, pi0s |-> cands, stdev |-> sds,
                 means |-> mns, min_idx |-> best,
                 pi0 |-> IF best = None THEN None ELSE Some(mns[best[1] + 1])]
  IN IF best = None
     THEN [err |-> "KeyError", pi0 |-> None, warned |-> FALSE, est |-> locals]
     ELSE [err |-> "", pi0 |-> Some(Clamp(mns[best[1] + 1])), warned |-> FALSE,
           est |-> locals]

TooFewNever(pv_len) == FALSE
TooFew(pv_len) == pv_len < MinPvals

\* estimate_pi0 with the small-sample test before the override test
EstimatePi0SmallFirst(p, mm, pi0_arg) ==
  IF TooFew(Len(p))
  THEN [err |-> "", pi0 |-> Some(Scale), warned |-> TRUE, est |-> NotRun]
  ELSE IF pi0_arg # None
  THEN [err |-> "", pi0 |-> pi0_arg, warned |-> FALSE, est |-> NotRun]
  ELSE GridEstimate(p, mm)

\* estimate_pi0(pv, m, pi0)
EstimatePi0(p, mm, pi0_arg) ==
  IF pi0_arg # None
  THEN [err |-> "", pi0 |-> pi0_arg, warned |-> FALSE, est |-> NotRun]
  ELSE IF TooFew(Len(p))
  THEN [err |-> "", pi0 |-> Some(Scale), warned |-> TRUE, est |-> NotRun]
  ELSE GridEstimate(p, mm)

----------------------------------------------------------------------------
\* qvalue, lines 60-80

\* np.argsort(pv) returns a permutation that sorts pv; the order it gives to
\* equal p-values is not specified.  Every sorting permutation is an outcome
\* for an input of at most MaxHead p-values; for a longer input the outcomes
\* taken are the two that order equal p-values by ascending and by descending
\* position.
IsArgSort(ord, p) ==
  /\ \A i, j \in 1..Len(p) : i # j => ord[i] # ord[j]
  /\ \A j \in 1..(Len(p) - 1) : p[ord[j]] <= p[ord[j + 1]]

\* the place of p[i] in sorted order, equal p-values ordered by position,
\* ascending (up) or descending
Place(p, i, up) ==
  1 + Cardinality({k \in 1..Len(p) :
        p[k] < p[i] \/ (p[k] = p[i] /\ IF up THEN k < i ELSE k > i)})

ArgSortBy(p, up) ==
  LET place == SubSeq([i \in 1..Len(p) |-> Place(p, i, up)], 1, Len(p))
  IN [j \in 1..Len(p) |-> CHOOSE i \in 1..Len(p) : place[i] = j]

ArgSorts(p) ==
  IF Len(p) <= MaxHead
  THEN {ord \in [1..Len(p) -> 1..Len(p)] : IsArgSort(ord, p)}
  ELSE {ArgSortBy(p, TRUE), ArgSortBy(p, FALSE)}

\* pv[p_ordered]
Take(p, ord) == [j \in 1..Len(p) |-> p[ord[j]]]

\* pi0 * m * pv[i] / (i + 1.0), rank = i + 1
RawQ(c, sorted, rank) == (c * sorted[rank]) \div rank

\* line 76, one pass of the loop body: acc holds the q-values of the ranks
\* above rank, qv[i + 1] first
ScanStepNoMin(c, sorted, rank, acc) == <<RawQ(c, sorted, rank)>> \o acc
ScanStep(c, sorted, rank, acc) ==
  <<Min(RawQ(c, sorted, rank), Head(acc))>> \o acc

\* the loop of lines 75-76 over the ranks hi down to lo, in this order: the
\* passes of the upper half of the range, then those of the lower half.  (The
\* test of upper makes TLC evaluate the upper half before it enters the lower.)
RECURSIVE Scan(_, _, _, _, _)
Scan(c, sorted, lo, hi, acc) ==
  IF lo > hi THEN acc
  ELSE IF lo = hi THEN ScanStep(c, sorted, lo, acc)
  ELSE LET mid == (lo + hi) \div 2
           upper == Scan(c, sorted, mid + 1, hi, acc)
       IN IF upper = <<>> THEN <<>> ELSE Scan(c, sorted, lo, mid, upper)

\* lines 62-76: the q-values in sorted order
SortedQ(c, sorted) ==
  LET n == Len(sorted) IN Scan(c, sorted, 1, n - 1, <<RawQ(c, sorted, n)>>)

\* line 78, qv[p_ordered] = qv.copy()
KeepSorted(q, ord) == q
Unsort(q, ord) == [i \in 1..Len(q) |-> q[CHOOSE j \in 1..Len(q) : ord[j] = i]]

----------------------------------------------------------------------------
\* The call qvalue(pv_in, pi0_in, m_in)

InitWith(inputs) ==
  /\ pv_in \in inputs
  /\ m_in \in MVals
  /\ pi0_in \in Pi0Vals
  /\ pc = "validate" /\ err = ""
  /\ pv = pv_in /\ m = m_in /\ pi0 = pi0_in
  /\ warned = FALSE /\ est = NotRun
  /\ p_ordered = <<>> /\ qv = <<>>

\* lines 41-51
Validate ==
  /\ pc = "validate"
  /\ IF ValidInput(pv)
     THEN /\ m' = Some(TestCount(pv, m))
          /\ pc' = "estimate"
          /\ err' = err
     ELSE /\ pc' = "failed"
          /\ err' = "AssertionError"
          /\ m' = m
  /\ UNCHANGED <<pv_in, m_in, pi0_in, pv, pi0, warned, est, p_ordered, qv>>

\* line 53
Estimate ==
  /\ pc = "estimate"
  /\ LET r == EstimatePi0(pv, m[1], pi0)
     IN /\ warned' = r.warned
        /\ est' = r.est
        /\ IF r.err = ""
           THEN pi0' = r.pi0 /\ pc' = "sort" /\ err' = err
           ELSE pi0' = pi0 /\ pc' = "failed" /\ err' = r.err
  /\ UNCHANGED <<pv_in, m_in, pi0_in, pv, m, p_ordered, qv>>

\* lines 60-61
ArgSort ==
  /\ pc = "sort"
  /\ \E ord \in ArgSorts(pv) :
       /\ p_ordered' = ord
       /\ pv' = Take(pv, ord)
  /\ pc' = "scan"
  /\ UNCHANGED <<pv_in, m_in, pi0_in, err, m, pi0, warned, est, qv>>

\* lines 62-80
ComputeQ ==
  /\ pc = "scan"
  /\ qv' = Unsort(SortedQ(pi0[1] * m[1], pv), p_ordered)
  /\ pc' = "done"
  /\ UNCHANGED <<pv_in, m_in, pi0_in, err, pv, m, pi0, warned, est, p_ordered>>

Next == Validate \/ Estimate \/ ArgSort \/ ComputeQ

Init == InitWith(ShortInputs \cup LongInputs)
Spec == Init /\ [][Next]_vars

\* calls with at most MaxHead p-values only
InitShort == InitWith(ShortInputs)
SpecShort == InitShort /\ [][Next]_vars

----------------------------------------------------------------------------
\* Properties

Valid == \A k \in 1..Len(pv_in) : pv_in[k] >= 0 /\ pv_in[k] <= 100
Long == Len(pv_in) >= MinPvals
Failed == pc = "failed"
Returned == pc = "done"
Estimated == pc \in {"sort", "scan", "done"}
InUnit(x) == x[1] > 0 /\ x[1] <= Scale

\* The q-values worked out from the p-values alone: the one of position k is
\* the least, over the p-values v >= p[k], of c * v / (the number of p-values
\* <= v).
SetMin(S) == CHOOSE x \in S : \A y \in S : x <= y
StepUp(p, c) ==
  LET n == Len(p)
      t == SubSeq([j \in 1..n |->
                    (c * p[j]) \div Cardinality({i \in 1..n : p[i] <= p[j]})], 1, n)
  IN [k \in 1..n |-> SetMin({t[j] : j \in {i \in 1..n : p[i] >= p[k]}})]

\* C1: every returned q-value lies in [0,1] when the pi0 used is in (0,1].
C1_QInUnit ==
  (Returned /\ InUnit(pi0)) =>
    \A k \in 1..Len(qv) : qv[k] >= 0 /\ qv[k] <= Scale * PScale

\* C2: a non-empty input of p-values all equal to 0 gets q-values all 0.
C2_AllZero ==
  ((\A k \in 1..Len(pv_in) : pv_in[k] = 0) /\ (Returned \/ Failed)) =>
    (Returned /\ \A k \in 1..Len(qv) : qv[k] = 0)

\* C3: with at least 100 p-values in [0,1] and no pi0 override the call never
\* fails: estimate_pi0 returns a pi0 and qvalue returns q-values.
C3_NeverAborts == (Long /\ Valid /\ pi0_in = None) => ~Failed

\* C4: in the returned array, p[i] < p[j] implies q[i] <= q[j].
C4_Monotone ==
  Returned =>
    \A i, j \in 1..Len(pv_in) : pv_in[i] < pv_in[j] => qv[i] <= qv[j]

\* (a q-value that the loop of lines 75-76 lowered to the one of a larger
\* p-value)
C4_Witness ==
  /\ Returned
  /\ \E i, j \in 1..Len(pv_in) :
       /\ pv_in[i] < pv_in[j]
       /\ qv[i] = qv[j] /\ qv[i] > 0
       /\ qv[i] < (pi0[1] * m[1] * pv_in[i])
                    \div Cardinality({k \in 1..Len(pv_in) : pv_in[k] <= pv_in[i]})

\* the permutations of 1..n, and lines 60-78 run on p with the sort giving ord
Perms(n) == {f \in [1..n -> 1..n] : \A i, j \in 1..n : i # j => f[i] # f[j]}
QValues(p, c, ord) == Unsort(SortedQ(c, Take(p, ord)), ord)

\* C5: the output has as many elements as the input, the q-value at position k
\* is the one of the p-value at position k, and every permutation of the
\* input, whatever order the sort gives to equal p-values, yields the same
\* permutation of the output (same m and pi0).
C5_Equivariant ==
  Returned =>
    /\ Len(qv) = Len(pv_in)
    /\ qv = StepUp(pv_in, pi0[1] * m[1])
    /\ \A f \in Perms(Len(pv_in)) :
         \A ord \in ArgSorts(Take(pv_in, f)) :
           QValues(Take(pv_in, f), pi0[1] * m[1], ord) = Take(qv, f)

C5_Witness ==
  /\ Returned
  /\ Len(pv_in) = MaxHead
  /\ pv_in[1] = pv_in[2] /\ pv_in[1] > 0
  /\ \E k \in 1..Len(pv_in) : pv_in[k] < pv_in[1]
  /\ p_ordered[Len(pv_in)] = 1

\* C6: the pi0 returned is in (0,1] when the override is absent or in (0,1].
C6_Pi0InUnit ==
  (Estimated /\ (pi0_in = None \/ InUnit(pi0_in))) => InUnit(pi0)

C6_Witness ==
  /\ Returned
  /\ est.ran /\ est.pi0[1] > Scale
  /\ m[1] < Len(pv_in)

\* C7: a p-value below 0 or above 1 makes qvalue fail at line 42, before
\* anything else: no estimate, no warning, no pi0, no q-values.
C7_InvalidRejected ==
  ~Valid =>
    /\ pc = "validate" \/ (Failed /\ err = "AssertionError")
    /\ ~warned /\ est = NotRun
    /\ pi0 = pi0_in /\ m = m_in /\ qv = <<>> /\ p_ordered = <<>>

C7_Witness ==
  /\ Failed /\ err = "AssertionError"
  /\ \A k \in 1..Len(pv_in) : pv_in[k] >= 0
  /\ Long /\ pi0_in # None /\ m_in # None

\* C8: a supplied pi0 is returned as it is and used for every q-value, with no
\* estimation, no clamping and no warning, whatever the input size.
C8_Override ==
  (Valid /\ pi0_in # None) =>
    /\ ~Failed
    /\ ~warned /\ est = NotRun
    /\ Estimated => pi0 = pi0_in
    /\ Returned => qv = StepUp(pv_in, pi0_in[1] * m[1])

C8_Witness ==
  /\ Returned
  /\ pi0_in = Some((3 * Scale) \div 2)
  /\ ~Long

\* C9: fewer than 100 valid p-values and no override: pi0 is exactly 1.0, the
\* warning is written, and the q-values are computed with pi0 = 1.0.
C9_SmallSample ==
  (Valid /\ pi0_in = None /\ ~Long) =>
    /\ ~Failed
    /\ Estimated => (pi0 = Some(Scale) /\ warned /\ est = NotRun)
    /\ Returned => qv = StepUp(pv_in, Scale * m[1])

C9_Witness ==
  /\ Returned
  /\ pi0_in = None /\ warned
  /\ \E k \in 1..Len(qv) : qv[k] > 0

\* C10: the search policy of estimate_pi0.  With L candidates kept (one for
\* each lambda before the first that no p-value exceeds), the start indices
\* searched are 0 .. min(85, L-5) - 1, every searched suffix has at least 6
\* candidates, the index chosen is the lowest one whose suffix has the least
\* standard deviation, and pi0 before clamping is the mean of that suffix.
\* (The search fails, at line 135, exactly when that range is empty.)
C10_SearchPolicy ==
  (est.ran /\ pc \in {"sort", "failed"}) =>
    LET L == Len(est.pi0s)
        stop == Min(85, L - 5)
    IN /\ \A j \in 1..95 :
            est.counts[j] = Cardinality({i \in 1..Len(pv_in) : pv_in[i] > j - 1})
       /\ \A j \in 1..L : est.counts[j] > 0
       /\ L <= 95 /\ (L < 95 => est.counts[L + 1] = 0)
       /\ \A j \in 1..L :
            est.pi0s[j] = (est.counts[j] * PScale * Scale) \div (m[1] * (PScale - (j - 1)))
       /\ Len(est.stdev) = (IF stop > 0 THEN stop ELSE 0)
       /\ Failed <=> stop <= 0
       /\ pc = "sort" =>
            LET chosen == est.min_idx[1]
            IN /\ chosen \in 0..(stop - 1)
               /\ \A idx \in 0..(stop - 1) :
                    /\ L - idx >= 6
                    /\ est.stdev[idx + 1] = Variance(Suffix(est.pi0s, idx))
                    /\ est.stdev[chosen + 1] <= est.stdev[idx + 1]
                    /\ idx < chosen => est.stdev[chosen + 1] < est.stdev[idx + 1]
               /\ est.pi0 = Some(Mean(Suffix(est.pi0s, chosen)))
               /\ pi0 = Some(Min(est.pi0[1], Scale))

C10_Witness ==
  /\ pc = "sort" /\ est.ran
  /\ Len(est.pi0s) < 90
  /\ est.min_idx[1] > 0
  /\ \E idx \in 0..(Len(est.stdev) - 1) :
       idx > est.min_idx[1] /\ est.stdev[idx + 1] = est.stdev[est.min_idx[1] + 1]

====
